---------------------------- MODULE Spec2Model ----------------------------
(***************************************************************************)
(* Model of app.py (CodeRev, the empathetic code reviewer).                *)
(*                                                                         *)
(* Text is modelled as TLA+ strings, character by character: the string    *)
(* operations of the program (lower, strip, find, startswith, "in", ...)   *)
(* and its regular expressions and JSON parsing are computed on the        *)
(* characters.  Characters outside ASCII cannot be written in a TLA+       *)
(* string; where the program handles them the model uses a stand-in        *)
(* character (see Unwritable).                                             *)
(*                                                                         *)
(* Specifications:                                                         *)
(*   SpecSeverity  analyze_comment_severity on its own                     *)
(*   SpecLanguage  get_language_from_code on its own                       *)
(*   SpecFeedback  generate_empathetic_feedback on its own                 *)
(*   SpecMock      MockGroq._mock_create on the prompts of the two methods *)
(*   Spec          the page: script runs, the Generate button, the loop    *)
(*   SpecExport    the Markdown export of a stored report on its own       *)
(***************************************************************************)
EXTENDS Integers, Sequences, FiniteSets, TLC

VARIABLES
    \* -- one method call examined on its own (the unit specifications)
    arg,                \* arguments of the call
    ret,                \* its returned value, or NotCalled
    \* -- the session of the page
    GroqAvailable,      \* whether the import of groq succeeded
    api_key,            \* sidebar text input
    selected_language,  \* selectbox
    code_snippet,       \* text area
    comment_inputs,     \* the num_comments text inputs "Comment k"
    session_state,      \* st.session_state, a dict
    shown,              \* what the last script run put on the page
    \* -- the run started by the Generate button
    pc,                 \* where the script is (see Spec); "unused" in the unit specs
    client,             \* class of reviewer.client, "none" before the run
    detected_language,
    comments,           \* the accepted comments
    comment_no,         \* number of the comment being processed (i + 1)
    all_feedback,
    \* -- history
    reviewers,          \* EmpatheticCodeReviewer objects created in the run
    calls               \* the completion calls of the run, as start and end events

unit_vars == <<arg, ret>>
page_vars == <<GroqAvailable, api_key, selected_language, code_snippet, comment_inputs,
               session_state, shown>>
run_vars  == <<pc, client, detected_language, comments, comment_no, all_feedback, reviewers, calls>>
vars == <<unit_vars, page_vars, run_vars>>

NotCalled == [called |-> FALSE]

(***************************************************************************)
(* Bounds of the model.                                                    *)
(***************************************************************************)
MaxWords == 2      \* a comment is made of at most MaxWords fragments
MaxFrags == 2      \* a code snippet is made of at most MaxFrags fragments
MaxComments == 3   \* num_comments is at most MaxComments

(***************************************************************************)
(* Python string primitives.                                               *)
(***************************************************************************)
Char(s, k) == SubSeq(s, k, k)

\* The backtick and the code fence (a backtick inside a string literal has
\* to be followed by an apostrophe, which SubSeq cuts off again).
Backtick == SubSeq("`'", 1, 1)
Fence == SubSeq("```'", 1, 3)

\* sub in s
Contains(sub, s) ==
    \E k \in 1..(Len(s) - Len(sub) + 1) : SubSeq(s, k, k + Len(sub) - 1) = sub

UpperLetters == "ABCDEFGHIJKLMNOPQRSTUVWXYZ"
LowerLetters == "abcdefghijklmnopqrstuvwxyz"

LowerChar(c) ==
    IF \E k \in 1..26 : Char(UpperLetters, k) = c
    THEN Char(LowerLetters, CHOOSE k \in 1..26 : Char(UpperLetters, k) = c)
    ELSE c

\* str.lower, computed on the two halves of the text
RECURSIVE lower(_)
lower(s) ==
    IF Len(s) <= 1 THEN LowerChar(s)
    ELSE lower(SubSeq(s, 1, Len(s) \div 2)) \o lower(SubSeq(s, Len(s) \div 2 + 1, Len(s)))

\* The least (FirstWhere) or greatest (LastWhere) position k of lo..hi at which
\* (Char(s, k) \in set) = member; 0 when there is none.  Computed on the two
\* halves of the range.
RECURSIVE FirstWhere(_, _, _, _, _)
FirstWhere(s, lo, hi, set, member) ==
    IF lo > hi THEN 0
    ELSE IF lo = hi THEN (IF (Char(s, lo) \in set) = member THEN lo ELSE 0)
    ELSE LET OrRight(left) ==
                 IF left # 0 THEN left
                 ELSE FirstWhere(s, (lo + hi) \div 2 + 1, hi, set, member)
         IN  OrRight(FirstWhere(s, lo, (lo + hi) \div 2, set, member))

RECURSIVE LastWhere(_, _, _, _, _)
LastWhere(s, lo, hi, set, member) ==
    IF lo > hi THEN 0
    ELSE IF lo = hi THEN (IF (Char(s, lo) \in set) = member THEN lo ELSE 0)
    ELSE LET OrLeft(right) ==
                 IF right # 0 THEN right
                 ELSE LastWhere(s, lo, (lo + hi) \div 2, set, member)
         IN  OrLeft(LastWhere(s, (lo + hi) \div 2 + 1, hi, set, member))

RECURSIVE Join(_)
Join(ws) == IF ws = <<>> THEN "" ELSE Head(ws) \o Join(Tail(ws))

(***************************************************************************)
(* EmpatheticCodeReviewer.analyze_comment_severity                         *)
(***************************************************************************)
\* A variant: the list without its first keyword.
harsh_indicators_without_bad ==
    <<"wrong", "terrible", "awful", "stupid", "inefficient", "don't", "never", "horrible">>

harsh_indicators ==
    <<"bad", "wrong", "terrible", "awful", "stupid", "inefficient", "don't",
      "never", "horrible">>
neutral_indicators == <<"consider", "might", "could", "suggest", "perhaps">>

\* sum(1 for indicator in indicators if indicator in text)
CountIn(indicators, text) ==
    Cardinality({k \in 1..Len(indicators) : Contains(indicators[k], text)})

\* A variant: the majority of the two counts decides instead of the harsh count.
analyze_comment_severity_majority(comment) ==
    LET comment_lower == lower(comment)
        harsh_count   == CountIn(harsh_indicators, comment_lower)
        neutral_count == CountIn(neutral_indicators, comment_lower)
    IN  IF harsh_count > neutral_count THEN "harsh"
        ELSE IF neutral_count > 0 THEN "neutral"
        ELSE "constructive"

analyze_comment_severity(comment) ==
    LET comment_lower == lower(comment)
        harsh_count   == CountIn(harsh_indicators, comment_lower)
        neutral_count == CountIn(neutral_indicators, comment_lower)
    IN  IF harsh_count > 0 THEN "harsh"
        ELSE IF neutral_count > 0 THEN "neutral"
        ELSE "constructive"

(***************************************************************************)
(* Regular expressions (module re).  A pattern is a sequence of items:     *)
(*   [t |-> "lit",  v |-> text]    the literal text                        *)
(*   [t |-> "plus", v |-> class]   one or more characters of the class     *)
(*   [t |-> "star", v |-> class]   zero or more characters of the class    *)
(*   [t |-> "eol",  v |-> ""]      $ in MULTILINE mode                     *)
(* with the classes "s" (\s) and "w" (\w).                                 *)
(* re.search asks whether some match exists, so the greedy order in which  *)
(* the engine tries the repetitions does not matter.                       *)
(***************************************************************************)
Whitespace == {" ", "\t", "\n", "\r", "\f"}

WordString == "abcdefghijklmnopqrstuvwxyzABCDEFGHIJKLMNOPQRSTUVWXYZ0123456789_"
WordChars == {Char(WordString, k) : k \in 1..Len(WordString)}

CharClass(c) == IF c = "s" THEN Whitespace ELSE WordChars

Lit(v)  == [t |-> "lit",  v |-> v]
Plus(c) == [t |-> "plus", v |-> c]
Star(c) == [t |-> "star", v |-> c]
Eol     == [t |-> "eol",  v |-> ""]

\* Does pat[k..] match text at position i (1 .. Len(text)+1)?
RECURSIVE MatchAt(_, _, _, _)
MatchAt(pat, k, text, i) ==
    IF k > Len(pat) THEN TRUE
    ELSE LET e == pat[k] IN
         CASE e.t = "lit" ->
                /\ i + Len(e.v) - 1 <= Len(text)
                /\ SubSeq(text, i, i + Len(e.v) - 1) = e.v
                /\ MatchAt(pat, k + 1, text, i + Len(e.v))
           [] e.t = "plus" ->
                /\ i <= Len(text)
                /\ Char(text, i) \in CharClass(e.v)
                /\ (MatchAt(pat, k + 1, text, i + 1) \/ MatchAt(pat, k, text, i + 1))
           [] e.t = "star" ->
                \/ MatchAt(pat, k + 1, text, i)
                \/ /\ i <= Len(text)
                   /\ Char(text, i) \in CharClass(e.v)
                   /\ MatchAt(pat, k, text, i + 1)
           [] e.t = "eol" ->
                /\ (i = Len(text) + 1 \/ Char(text, i) = "\n")
                /\ MatchAt(pat, k + 1, text, i)

\* re.search(pattern, text, re.MULTILINE) is not None
re_search(pat, text) == \E i \in 1..(Len(text) + 1) : MatchAt(pat, 1, text, i)

(***************************************************************************)
(* EmpatheticCodeReviewer.get_language_from_code                           *)
(***************************************************************************)
language_patterns == <<
    [lang |-> "python", patterns |-> <<
        <<Lit("def"), Plus("s"), Plus("w"), Star("s"), Lit("(")>>,
        <<Lit("import"), Plus("s"), Plus("w")>>,
        <<Lit("from"), Plus("s"), Plus("w"), Plus("s"), Lit("import")>>,
        <<Lit(":"), Star("s"), Eol>> >>],
    [lang |-> "javascript", patterns |-> <<
        <<Lit("function"), Plus("s"), Plus("w"), Star("s"), Lit("(")>>,
        <<Lit("=>"), Star("s"), Lit("{")>>,
        <<Lit("var"), Plus("s"), Plus("w")>>,
        <<Lit("let"), Plus("s"), Plus("w")>>,
        <<Lit("const"), Plus("s"), Plus("w")>> >>],
    [lang |-> "java", patterns |-> <<
        <<Lit("public"), Plus("s"), Lit("class")>>,
        <<Lit("private"), Plus("s"), Plus("w")>>,
        <<Lit("public"), Plus("s"), Lit("static"), Plus("s"), Lit("void"),
          Plus("s"), Lit("main")>> >>],
    [lang |-> "cpp", patterns |-> <<
        <<Lit("#include"), Star("s"), Lit("<")>>,
        <<Lit("int"), Plus("s"), Lit("main"), Star("s"), Lit("(")>>,
        <<Lit("std::")>>,
        <<Lit("cout"), Star("s"), Lit("<<")>> >>],
    [lang |-> "c", patterns |-> <<
        <<Lit("#include"), Star("s"), Lit("<")>>,
        <<Lit("int"), Plus("s"), Lit("main"), Star("s"), Lit("(")>>,
        <<Lit("printf"), Star("s"), Lit("(")>> >>],
    [lang |-> "go", patterns |-> <<
        <<Lit("func"), Plus("s"), Plus("w"), Star("s"), Lit("(")>>,
        <<Lit("package"), Plus("s"), Plus("w")>>,
        <<Lit("import"), Star("s"), Lit("(")>> >>],
    [lang |-> "rust", patterns |-> <<
        <<Lit("fn"), Plus("s"), Plus("w"), Star("s"), Lit("(")>>,
        <<Lit("use"), Plus("s"), Plus("w")>>,
        <<Lit("let"), Plus("s"), Lit("mut")>> >>],
    [lang |-> "php", patterns |-> <<
        <<Lit("<?php")>>,
        <<Lit("function"), Plus("s"), Plus("w"), Star("s"), Lit("(")>>,
        <<Lit("$"), Plus("w")>> >>] >>

\* any(re.search(pattern, code, re.MULTILINE) for pattern in patterns)
AnyPattern(patterns, code) ==
    \E p \in 1..Len(patterns) : re_search(patterns[p], code)

\* A variant: the loop runs over the table from its last entry to its first.
RECURSIVE DetectFrom_reversed(_, _)
DetectFrom_reversed(code, k) ==
    LET j == Len(language_patterns) + 1 - k
    IN  IF k > Len(language_patterns) THEN "python"
        ELSE IF AnyPattern(language_patterns[j].patterns, code)
             THEN language_patterns[j].lang
        ELSE DetectFrom_reversed(code, k + 1)

\* The loop over language_patterns.items() from entry k on, then the default.
RECURSIVE DetectFrom(_, _)
DetectFrom(code, k) ==
    IF k > Len(language_patterns) THEN "python"
    ELSE IF AnyPattern(language_patterns[k].patterns, code)
         THEN language_patterns[k].lang
    ELSE DetectFrom(code, k + 1)

get_language_from_code(code) == DetectFrom(code, 1)

(***************************************************************************)
(* More Python string primitives (indices are Python's: from 0, -1 for     *)
(* "not found").                                                           *)
(***************************************************************************)
\* str.strip(): from the first to the last character that is no whitespace
strip(s) ==
    LET Between(first, last) == IF first = 0 THEN "" ELSE SubSeq(s, first, last)
    IN  Between(FirstWhere(s, 1, Len(s), Whitespace, FALSE),
                LastWhere(s, 1, Len(s), Whitespace, FALSE))

startswith(s, prefix) ==
    Len(prefix) <= Len(s) /\ SubSeq(s, 1, Len(prefix)) = prefix

endswith(s, suffix) ==
    Len(suffix) <= Len(s) /\ SubSeq(s, Len(s) - Len(suffix) + 1, Len(s)) = suffix

\* s.find(c) and s.rfind(c) for a single character c
find(s, c) == FirstWhere(s, 1, Len(s), {c}, TRUE) - 1

rfind(s, c) == LastWhere(s, 1, Len(s), {c}, TRUE) - 1

\* s[a:b] for 0 <= a <= b <= len(s)
Slice(s, a, b) == SubSeq(s, a + 1, b)

(***************************************************************************)
(* json.loads.  A parsed value is a record with a field ty:                *)
(*   "str" (v: the text), "num" (v: the literal as written), "bool", "null",*)
(*   "list" (v: sequence of values), "dict" (v: function from keys).        *)
(* A parse step returns [ok, val, end] with end the position after the     *)
(* value, or Fail, which stands for json.JSONDecodeError.                  *)
(***************************************************************************)
\* Stand-in for the characters a TLA+ string cannot hold.
Unwritable == "~"

Fail == [ok |-> FALSE]
Ok(v, e) == [ok |-> TRUE, val |-> v, end |-> e]

JsonWhitespace == {" ", "\t", "\n", "\r"}
ControlChars == {"\t", "\n", "\r", "\f"}
Digits == {"0", "1", "2", "3", "4", "5", "6", "7", "8", "9"}
HexDigits == Digits \cup {"a", "b", "c", "d", "e", "f", "A", "B", "C", "D", "E", "F"}

\* The first position from i on that holds no character of the set.
SkipOver(s, i, set) ==
    LET OrEnd(k) == IF k = 0 THEN (IF i > Len(s) THEN i ELSE Len(s) + 1) ELSE k
    IN  OrEnd(FirstWhere(s, i, Len(s), set, FALSE))

SkipWs(s, i) == SkipOver(s, i, JsonWhitespace)

SkipDigits(s, i) == SkipOver(s, i, Digits)

At(s, i, lit) == i + Len(lit) - 1 <= Len(s) /\ SubSeq(s, i, i + Len(lit) - 1) = lit

CharAt(s, i) == IF i >= 1 /\ i <= Len(s) THEN Char(s, i) ELSE ""

\* The character a backslash escape stands for ("" when it is no escape).
Unescape(e) ==
    CASE e = "\"" -> "\""
      [] e = "\\" -> "\\"
      [] e = "/"  -> "/"
      [] e = "b"  -> Unwritable
      [] e = "f"  -> "\f"
      [] e = "n"  -> "\n"
      [] e = "r"  -> "\r"
      [] e = "t"  -> "\t"
      [] OTHER    -> ""

\* json.decoder.scanstring from position i, just after the opening quote:
\* the run of plain characters up to the next quote, backslash or control
\* character is taken in one step.  A \uXXXX escape yields Unwritable,
\* whatever its digits.
RECURSIVE scanstring(_, _, _)
scanstring(s, i, acc) ==
    LET Escape(j, acc2, e, u) ==
            IF e = "u" THEN
                 IF j + 5 <= Len(s) /\ \A k \in 2..5 : Char(s, j + k) \in HexDigits
                 THEN scanstring(s, j + 6, acc2 \o Unwritable)
                 ELSE Fail
            ELSE IF e # "" /\ u # "" THEN scanstring(s, j + 2, acc2 \o u)
            ELSE Fail
        Stop(j, c, acc2) ==
            IF c = "\"" THEN Ok([ty |-> "str", v |-> acc2], j + 1)
            ELSE IF c = "\\" THEN Escape(j, acc2, CharAt(s, j + 1), Unescape(CharAt(s, j + 1)))
            ELSE Fail
        From(j) == IF j = 0 THEN Fail ELSE Stop(j, Char(s, j), acc \o SubSeq(s, i, j - 1))
    IN  From(FirstWhere(s, i, Len(s), {"\"", "\\"} \cup ControlChars, TRUE))

\* json.scanner.NUMBER_RE.match at i: the position after the number, i if none.
NumberEnd(s, i) ==
    LET AfterDigits(j2, k) ==
            IF CharAt(s, j2) \in {"e", "E"} /\ CharAt(s, k) \in Digits
            THEN SkipDigits(s, k) ELSE j2
        AfterFraction(j2) ==
            AfterDigits(j2, IF CharAt(s, j2 + 1) \in {"+", "-"} THEN j2 + 2 ELSE j2 + 1)
        AfterInteger(j1) ==
            IF j1 = 0 THEN i
            ELSE AfterFraction(IF CharAt(s, j1) = "." /\ CharAt(s, j1 + 1) \in Digits
                               THEN SkipDigits(s, j1 + 1) ELSE j1)
        AfterSign(j0) ==
            AfterInteger(IF CharAt(s, j0) = "0" THEN j0 + 1
                         ELSE IF CharAt(s, j0) \in Digits THEN SkipDigits(s, j0)
                         ELSE 0)
    IN  AfterSign(IF CharAt(s, i) = "-" THEN i + 1 ELSE i)

RECURSIVE scan_once(_, _)
RECURSIVE ObjectPairs(_, _, _)
RECURSIVE ArrayItems(_, _, _)

\* json.decoder.JSONObject from position i, just after the brace.
JSONObject(s, i) ==
    LET At1(j) == IF CharAt(s, j) = "}" THEN Ok([ty |-> "dict", v |-> <<>>], j + 1)
                  ELSE IF CharAt(s, j) = "\"" THEN ObjectPairs(s, j, <<>>)
                  ELSE Fail
    IN  At1(SkipWs(s, i))

\* The loop of JSONObject; j is at the opening quote of a key.
ObjectPairs(s, j, pairs) ==
    LET NextKey(pairs2, c4) ==
            IF CharAt(s, c4) = "\"" THEN ObjectPairs(s, c4, pairs2) ELSE Fail
        AfterValue(pairs2, c3) ==
            IF CharAt(s, c3) = "}" THEN Ok([ty |-> "dict", v |-> pairs2], c3 + 1)
            ELSE IF CharAt(s, c3) # "," THEN Fail
            ELSE NextKey(pairs2, SkipWs(s, c3 + 1))
        Value(key, value) ==
            IF ~value.ok THEN Fail
            ELSE AfterValue((key.val.v :> value.val) @@ pairs, SkipWs(s, value.end))
        Colon(key, c1) ==
            IF CharAt(s, c1) # ":" THEN Fail
            ELSE Value(key, scan_once(s, SkipWs(s, c1 + 1)))
        Key(key) == IF ~key.ok THEN Fail ELSE Colon(key, SkipWs(s, key.end))
    IN  Key(scanstring(s, j + 1, ""))

\* json.decoder.JSONArray from position i, just after the bracket.
JSONArray(s, i) ==
    LET At1(j) == IF CharAt(s, j) = "]" THEN Ok([ty |-> "list", v |-> <<>>], j + 1)
                  ELSE ArrayItems(s, j, <<>>)
    IN  At1(SkipWs(s, i))

\* The loop of JSONArray; j is at the start of an item.
ArrayItems(s, j, items) ==
    LET AfterValue(items2, c1) ==
            IF CharAt(s, c1) = "]" THEN Ok([ty |-> "list", v |-> items2], c1 + 1)
            ELSE IF CharAt(s, c1) # "," THEN Fail
            ELSE ArrayItems(s, SkipWs(s, c1 + 1), items2)
        Value(value) ==
            IF ~value.ok THEN Fail
            ELSE AfterValue(Append(items, value.val), SkipWs(s, value.end))
    IN  Value(scan_once(s, j))

\* json.scanner.py_make_scanner._scan_once
scan_once(s, i) ==
    LET Number(n) ==
            IF n > i THEN Ok([ty |-> "num", v |-> SubSeq(s, i, n - 1)], n)
            ELSE IF At(s, i, "NaN") THEN Ok([ty |-> "num", v |-> "NaN"], i + 3)
            ELSE IF At(s, i, "Infinity") THEN Ok([ty |-> "num", v |-> "Infinity"], i + 8)
            ELSE IF At(s, i, "-Infinity") THEN Ok([ty |-> "num", v |-> "-Infinity"], i + 9)
            ELSE Fail
        Value(c) ==
            IF c = "" THEN Fail
            ELSE IF c = "\"" THEN scanstring(s, i + 1, "")
            ELSE IF c = "{" THEN JSONObject(s, i + 1)
            ELSE IF c = "[" THEN JSONArray(s, i + 1)
            ELSE IF At(s, i, "null") THEN Ok([ty |-> "null"], i + 4)
            ELSE IF At(s, i, "true") THEN Ok([ty |-> "bool", v |-> "true"], i + 4)
            ELSE IF At(s, i, "false") THEN Ok([ty |-> "bool", v |-> "false"], i + 5)
            ELSE Number(NumberEnd(s, i))
    IN  Value(CharAt(s, i))

\* json.loads(text): Fail stands for the JSONDecodeError it raises.
json_loads(text) ==
    LET Whole(r) == IF r.ok /\ SkipWs(text, r.end) = Len(text) + 1 THEN r ELSE Fail
    IN  Whole(scan_once(text, SkipWs(text, 1)))

(***************************************************************************)
(* Python values of the program: strings and dicts of strings, in the same *)
(* representation as the parsed JSON values.                               *)
(***************************************************************************)
PyStr(text) == [ty |-> "str", v |-> text]
PyDict(f)   == [ty |-> "dict", v |-> f]

FeedbackFields ==
    {"positive_rephrasing", "the_why", "suggested_improvement", "resource_link"}

(***************************************************************************)
(* MockGroq                                                                *)
(***************************************************************************)
\* The escape json.dumps writes for a character ("" when it writes it as is).
EscapeOf(c) ==
    CASE c = "\"" -> "\\\""
      [] c = "\\" -> "\\\\"
      [] c = "\n" -> "\\n"
      [] c = "\r" -> "\\r"
      [] c = "\t" -> "\\t"
      [] c = "\f" -> "\\f"
      [] c = Unwritable -> "\\u201a"
      [] OTHER    -> ""

EscapedChars == {"\"", "\\", "\n", "\r", "\t", "\f", Unwritable}

\* json.encoder.py_encode_basestring_ascii, without the quotes: the run of
\* characters up to the next escaped one is taken in one step.
RECURSIVE encode_basestring_ascii(_)
encode_basestring_ascii(text) ==
    LET From(j) ==
            IF j = 0 THEN text
            ELSE SubSeq(text, 1, j - 1) \o EscapeOf(Char(text, j))
                 \o encode_basestring_ascii(SubSeq(text, j + 1, Len(text)))
    IN  From(FirstWhere(text, 1, Len(text), EscapedChars, TRUE))

\* json.dumps of a dict of strings, given as its items in insertion order
RECURSIVE dumps_items(_)
dumps_items(items) ==
    IF items = <<>> THEN ""
    ELSE "\"" \o encode_basestring_ascii(items[1][1]) \o "\": \""
         \o encode_basestring_ascii(items[1][2]) \o "\""
         \o (IF Len(items) > 1 THEN ", " ELSE "") \o dumps_items(Tail(items))

json_dumps(items) == "{" \o dumps_items(items) \o "}"

mock_json == <<
    <<"positive_rephrasing",
      "Nice work " \o Unwritable \o Unwritable \o Unwritable
      \o " the logic is solid. We can make this clearer and slightly more "
      \o "efficient by simplifying the loop and improving naming.">>,
    <<"the_why",
      "Combining boolean checks and using idiomatic constructs improves "
      \o "readability and performance for larger lists.">>,
    <<"suggested_improvement",
      "def get_active_users(users):\n    return [user for user in users "
      \o "if user.is_active and user.profile_complete]">>,
    <<"resource_link",
      "https://docs.python.org/3/tutorial/datastructures.html#list-comprehensions">> >>

summary_text ==
    "Great work! You've implemented functional logic and with a few changes "
    \o "(readability, naming, and idiomatic constructs) the code will be more "
    \o "maintainable and efficient. Keep iterating!"

\* The content of the first message whose role is "user", "" if there is none.
FirstUserContent(messages) ==
    IF \E k \in 1..Len(messages) : messages[k].role = "user"
    THEN messages[CHOOSE k \in 1..Len(messages) :
                    /\ messages[k].role = "user"
                    /\ \A j \in 1..(k - 1) : messages[j].role # "user"].content
    ELSE ""

\* MockGroq._mock_create: the content of the completion it returns.
mock_create(messages) ==
    LET user_msg == FirstUserContent(messages) IN
    IF \/ Contains("Respond only with valid JSON", user_msg)
       \/ Contains("Please provide a response in the following JSON format", user_msg)
    THEN json_dumps(mock_json)
    ELSE summary_text

(***************************************************************************)
(* EmpatheticCodeReviewer.generate_empathetic_feedback                     *)
(***************************************************************************)
Severities == {"harsh", "neutral", "constructive"}

tone_instruction(severity) ==
    CASE severity = "harsh" ->
           "extra gentle and encouraging, as the original comment was quite "
           \o "direct and potentially discouraging"
      [] severity = "neutral" ->
           "supportive and educational with a collaborative tone"
      [] severity = "constructive" ->
           "warm, collaborative, and appreciative of the existing effort"

resource_examples_get(language, default) ==
    CASE language = "python" -> "Python documentation (docs.python.org), PEP 8 style guide"
      [] language = "javascript" -> "MDN Web Docs, JavaScript.info, ECMAScript specifications"
      [] language = "java" -> "Oracle Java documentation, Java Code Conventions"
      [] language = "cpp" -> "cppreference.com, ISO C++ guidelines"
      [] language = "c" -> "C standard documentation, K&R C book references"
      [] language = "go" -> "Go documentation (golang.org), Effective Go"
      [] language = "rust" -> "The Rust Book, Rust by Example"
      [] language = "php" -> "PHP Manual, PSR standards"
      [] OTHER -> default

\* The least position of lo..hi at which old starts in s; 0 when there is none.
RECURSIVE FirstOccurrence(_, _, _, _)
FirstOccurrence(s, old, lo, hi) ==
    IF lo > hi THEN 0
    ELSE IF lo = hi THEN (IF SubSeq(s, lo, lo + Len(old) - 1) = old THEN lo ELSE 0)
    ELSE LET OrRight(left) ==
                 IF left # 0 THEN left
                 ELSE FirstOccurrence(s, old, (lo + hi) \div 2 + 1, hi)
         IN  OrRight(FirstOccurrence(s, old, lo, (lo + hi) \div 2))

\* str.replace(old, new), old not empty: the occurrences from left to right,
\* none overlapping the one before
RECURSIVE replace(_, _, _)
replace(s, old, new) ==
    LET From(k) ==
            IF k = 0 THEN s
            ELSE SubSeq(s, 1, k - 1) \o new
                 \o replace(SubSeq(s, k + Len(old), Len(s)), old, new)
    IN  From(FirstOccurrence(s, old, 1, Len(s) - Len(old) + 1))

\* code.replace of the fence by the fence with U+200B after its
\* first backtick; Unwritable stands for U+200B
safe_code_of(code) ==
    replace(code, Fence, Backtick \o Unwritable \o Backtick \o Backtick)

\* The f-string of the feedback prompt.
feedback_prompt(safe_code, original_comment, language, tone) ==
    "\n"
    \o "You are an experienced senior developer and mentor who "
    \o "excels at giving constructive, empathetic code reviews. "
    \o "Your goal is to transform direct criticism into supportive, "
    \o "educational guidance.\n"
    \o "\n"
    \o "**Code Snippet ("
    \o language
    \o "):**\n"
    \o Fence
    \o language
    \o "\n"
    \o safe_code
    \o "\n"
    \o Fence \o "\n"
    \o "\n"
    \o "**Original Comment:** \""
    \o original_comment
    \o "\"\n"
    \o "\n"
    \o "Please provide a response in the following JSON format:\n"
    \o "{\n"
    \o "    \"positive_rephrasing\": \"A gentle, encouraging version "
    \o "of the feedback that maintains technical accuracy but uses "
    \o "supportive language\",\n"
    \o "    \"the_why\": \"A clear explanation of the underlying "
    \o "software engineering principle, performance concern, or "
    \o "best practice\",\n"
    \o "    \"suggested_improvement\": \"A concrete code example "
    \o "showing the recommended fix\",\n"
    \o "    \"resource_link\": \"A real, helpful documentation link or "
    \o "resource relevant to "
    \o resource_examples_get(language, "relevant documentation")
    \o "\"\n"
    \o "}\n"
    \o "\n"
    \o "**Important Guidelines:**\n"
    \o "- Be "
    \o tone
    \o "\n"
    \o "- Focus on growth and learning opportunities\n"
    \o "- Explain the reasoning behind best practices\n"
    \o "- Provide specific, actionable improvements\n"
    \o "- Use collaborative language (\"we\", \"let's\") when "
    \o "appropriate\n"
    \o "- Acknowledge what's working well before suggesting "
    \o "improvements\n"
    \o "- Make sure the code example is syntactically correct and "
    \o "directly addresses the issue\n"
    \o "- Keep explanations concise but comprehensive\n"
    \o "\n"
    \o "Respond only with valid JSON.\n"

feedback_messages(code, original_comment, language, severity) == <<
    [role |-> "system",
     content |-> "You are an expert code reviewer and mentor. Always respond "
                 \o "with valid JSON containing the requested fields."],
    [role |-> "user",
     content |-> feedback_prompt(safe_code_of(code), original_comment,
                                 language, tone_instruction(severity))] >>

\* The dict of the except json.JSONDecodeError clause.
json_fallback(language) ==
    PyDict([k \in FeedbackFields |->
        PyStr(CASE k = "positive_rephrasing" ->
                     "Let's explore how we can enhance this aspect of the code together."
                [] k = "the_why" ->
                     "This improvement follows software engineering best practices "
                     \o "for maintainable and readable code."
                [] k = "suggested_improvement" ->
                     "// Example improvement (language-dependent) would go here"
                [] k = "resource_link" ->
                     IF language = "python" THEN "https://docs.python.org/3/tutorial/"
                     ELSE "https://developer.mozilla.org/")])

\* The dict of the except Exception clause.
api_fallback(language) ==
    PyDict([k \in FeedbackFields |->
        PyStr(CASE k = "positive_rephrasing" ->
                     "There's a great opportunity to enhance this code."
                [] k = "the_why" ->
                     "Following established patterns improves code quality and "
                     \o "maintainability."
                [] k = "suggested_improvement" ->
                     "// Code improvement example for " \o language
                [] k = "resource_link" ->
                     IF language = "python" THEN "https://docs.python.org/3/tutorial/"
                     ELSE "https://developer.mozilla.org/")])

\* Removal of the surrounding code fences.
strip_fences(response_text) ==
    LET Closing(t) == IF endswith(t, Fence) THEN strip(SubSeq(t, 1, Len(t) - 3)) ELSE t
        Opening(n) == IF n = 0 THEN response_text
                      ELSE Closing(strip(SubSeq(response_text, n + 1, Len(response_text))))
    IN  Opening(IF startswith(response_text, Fence \o "json") THEN 7
                ELSE IF startswith(response_text, Fence) THEN 3
                ELSE 0)

\* Extraction of the first {...} block.
extract_json_text(response_text) ==
    LET Block(first_brace, last_brace) ==
            IF first_brace # -1 /\ last_brace # -1 /\ last_brace > first_brace
            THEN Slice(response_text, first_brace, last_brace + 1)
            ELSE response_text
    IN  Block(find(response_text, "{"), rfind(response_text, "}"))

\* The body of the try block from the returned completion on, with the
\* except json.JSONDecodeError clause.  content is the text of the completion.
parse_response(content, language) ==
    LET Loaded(parsed) == IF parsed.ok THEN parsed.val ELSE json_fallback(language)
    IN  Loaded(json_loads(extract_json_text(strip_fences(strip(content)))))

(***************************************************************************)
(* What the completion call of the client does: MockGroq computes its      *)
(* content from the messages; the Groq service is outside the program, it  *)
(* raises ("error"), returns a completion without content ("none") or      *)
(* returns any text.                                                       *)
(***************************************************************************)
MockOutcome(messages) == [kind |-> "text", content |-> mock_create(messages)]

\* A variant of feedback_result: no except Exception clause, a failing call
\* raises.
feedback_result_unhandled(outcome, language, severity) ==
    IF severity \notin Severities \/ outcome.kind # "text" THEN [raised |-> TRUE]
    ELSE [raised |-> FALSE, value |-> parse_response(outcome.content, language)]

\* generate_empathetic_feedback from the completion call on: r.raised tells
\* whether an exception leaves the method, r.value is the returned value.
\* The lookup of the tone (line 223) is outside the try and may raise.
feedback_result(outcome, language, severity) ==
    IF severity \notin Severities THEN [raised |-> TRUE]
    ELSE IF outcome.kind = "text"
         THEN [raised |-> FALSE, value |-> parse_response(outcome.content, language)]
    ELSE [raised |-> FALSE, value |-> api_fallback(language)]

(***************************************************************************)
(* EmpatheticCodeReviewer.generate_holistic_summary                        *)
(***************************************************************************)
\* The f-string of the summary prompt.
summary_prompt(code, n_feedback, language) ==
    "\n"
    \o "Based on the code review feedback provided for this "
    \o language
    \o " code snippet, write an encouraging and supportive "
    \o "concluding paragraph that:\n"
    \o "\n"
    \o "1. Acknowledges the developer's effort and current "
    \o "implementation\n"
    \o "2. Highlights the main themes from the feedback (e.g., "
    \o "performance, readability, conventions)\n"
    \o "3. Frames the suggestions as opportunities for growth\n"
    \o "4. Maintains an encouraging, mentor-like tone\n"
    \o "5. Ends with motivation for continued learning\n"
    \o "\n"
    \o "**Code Snippet:**\n"
    \o Fence
    \o language
    \o "\n"
    \o code
    \o "\n"
    \o Fence \o "\n"
    \o "\n"
    \o "**Number of feedback items:** "
    \o ToString(n_feedback)
    \o "\n"
    \o "\n"
    \o "Write a warm, encouraging paragraph (3-5 sentences) that "
    \o "would make a developer feel supported and motivated to "
    \o "implement the suggestions.\n"

summary_messages(code, n_feedback, language) == <<
    [role |-> "system",
     content |-> "You are a supportive senior developer providing encouraging "
                 \o "feedback. Write in a warm, mentoring tone."],
    [role |-> "user", content |-> summary_prompt(code, n_feedback, language)] >>

summary_fallback ==
    "Great work on this implementation! The feedback above provides some "
    \o "excellent opportunities to enhance your code's performance, readability, "
    \o "and adherence to best practices. Keep iterating and learning!"

summary_result(outcome) ==
    IF outcome.kind = "text" THEN strip(outcome.content) ELSE summary_fallback

(***************************************************************************)
(* Specification SpecSeverity: analyze_comment_severity applied to every   *)
(* comment made of at most MaxWords fragments.                             *)
(***************************************************************************)
CommentFragments ==
    {"bad", "wrong", "terrible", "awful", "stupid", "inefficient", "don't",
     "never", "horrible", "consider", "might", "could", "suggest", "perhaps",
     "Bad", "NEVER", "Perhaps", "ba", "d", " ", "nice name.",
     "We could perhaps ", "Don't"}

FragmentSeqs(frags, n) == UNION {[1..k -> frags] : k \in 0..n}

\* In the unit specifications there is no page and no run.
NoSession ==
    /\ GroqAvailable = FALSE /\ api_key = "" /\ selected_language = "Auto-detect"
    /\ code_snippet = "" /\ comment_inputs = <<>> /\ session_state = <<>>
    /\ shown = {}
    /\ pc = "unused" /\ client = "none" /\ detected_language = "" /\ comments = <<>>
    /\ comment_no = 0 /\ all_feedback = <<>> /\ reviewers = 0 /\ calls = <<>>

InitSeverity ==
    /\ arg \in {[comment |-> Join(ws)] : ws \in FragmentSeqs(CommentFragments, MaxWords)}
    /\ ret = NotCalled
    /\ NoSession

ClassifyComment ==
    /\ ret = NotCalled
    /\ "comment" \in DOMAIN arg
    /\ ret' = [called |-> TRUE, severity |-> analyze_comment_severity(arg.comment)]
    /\ UNCHANGED <<arg, page_vars, run_vars>>

NextSeverity == ClassifyComment

SpecSeverity == InitSeverity /\ [][NextSeverity]_vars

(***************************************************************************)
(* Specification SpecLanguage: get_language_from_code applied to every     *)
(* snippet made of at most MaxFrags fragments.                             *)
(***************************************************************************)
SnippetFragments ==
    {"def f", "(", ":", "\n", " ", "x", "import ", "#include <", "std::",
     "printf", "int main", "func f", "fn f", "let ", "mut", "$", "<?php",
     "public class", "function f", "use "}

InitLanguage ==
    /\ arg \in {[code_snippet |-> Join(ws)] :
                    ws \in FragmentSeqs(SnippetFragments, MaxFrags)}
    /\ ret = NotCalled
    /\ NoSession

DetectLanguage ==
    /\ ret = NotCalled
    /\ "code_snippet" \in DOMAIN arg
    /\ ret' = [called |-> TRUE, language |-> get_language_from_code(arg.code_snippet)]
    /\ UNCHANGED <<arg, page_vars, run_vars>>

NextLanguage == DetectLanguage

SpecLanguage == InitLanguage /\ [][NextLanguage]_vars

(***************************************************************************)
(* Specification SpecFeedback: generate_empathetic_feedback on its own,    *)
(* for every behaviour of the completion call: it raises, it returns a     *)
(* completion without content, or it returns a text of one of the classes  *)
(*   a  JSON text                      b  JSON in a fenced block           *)
(*   c  JSON with prose around it      d  no JSON at all                   *)
(*   e  the empty string                                                   *)
(***************************************************************************)
FieldOrder == <<"positive_rephrasing", "the_why", "suggested_improvement", "resource_link">>

\* What the completion wrote for a field: a string, null, or nothing.
FieldStatus == {"str", "null", "absent"}

FieldText(k) ==
    CASE k = "positive_rephrasing"   -> "\"Nice start, let's tidy the loop.\""
      [] k = "the_why"               -> "\"Readable code is maintained more easily.\""
      [] k = "suggested_improvement" -> "\"def f(xs):\\n    return {x for x in xs}\""
      [] k = "resource_link"         -> "\"https://docs.python.org/3/\""

\* The members "key": value of the object, for the fields from position k on.
RECURSIVE ObjectMembers(_, _)
ObjectMembers(status, k) ==
    IF k > Len(FieldOrder) THEN <<>>
    ELSE LET f    == FieldOrder[k]
             rest == ObjectMembers(status, k + 1)
         IN  IF status[f] = "absent" THEN rest
             ELSE <<"\"" \o f \o "\": "
                    \o (IF status[f] = "str" THEN FieldText(f) ELSE "null")>> \o rest

RECURSIVE JoinWith(_, _)
JoinWith(ws, sep) ==
    IF ws = <<>> THEN ""
    ELSE IF Len(ws) = 1 THEN ws[1]
    ELSE ws[1] \o sep \o JoinWith(Tail(ws), sep)

ObjectText(status) == "{" \o JoinWith(ObjectMembers(status, 1), ", ") \o "}"

JsonTexts ==
    {ObjectText(st) : st \in [FeedbackFields -> FieldStatus]}
    \cup {"[1, 2]", "\"just a sentence\"", "42", "{\"resource_link\": 7}",
          "{\"positive_rephrasing\": \"a\", \"the_why\": \"b\", "
          \o "\"suggested_improvement\": \"c\", \"resource_link\": \"d\", \"extra\": \"e\"}"}

ResponseTexts ==
    {[class |-> "a", content |-> "  " \o j \o "\n"] : j \in JsonTexts}
    \cup {[class |-> "b", content |-> Fence \o tag \o "\n" \o j \o "\n" \o Fence] :
            j \in JsonTexts, tag \in {"json", "python"}}
    \cup {[class |-> "c", content |-> w[1] \o j \o w[2]] :
            j \in JsonTexts,
            w \in {<<"Here is the feedback:\n", "">>,
                   <<"", "\nHope this helps!">>,
                   <<"Use {} with care. ", "\nHope this helps!">>}}
    \cup {[class |-> "d", content |-> g] :
            g \in {"I cannot help with that.", "{oops", "}{", "<html>", Fence,
                   "{\"the_why\": \"a raw\nline break\"}"}}
    \cup {[class |-> "e", content |-> ""]}

FeedbackOutcomes ==
    {[class |-> "error", outcome |-> [kind |-> "error"]],
     [class |-> "none",  outcome |-> [kind |-> "none"]]}
    \cup {[class |-> t.class, outcome |-> [kind |-> "text", content |-> t.content]] :
            t \in ResponseTexts}

InitFeedback ==
    /\ arg \in {[language |-> l, severity |-> "harsh", class |-> o.class,
                 outcome |-> o.outcome] :
                    l \in {"python", "go"}, o \in FeedbackOutcomes}
    /\ ret = NotCalled
    /\ NoSession

GenerateFeedback ==
    /\ ret = NotCalled
    /\ "outcome" \in DOMAIN arg
    /\ LET Returned(r) == IF r.raised THEN [called |-> TRUE, raised |-> TRUE]
                           ELSE [called |-> TRUE, raised |-> FALSE, feedback |-> r.value]
       IN  ret' = Returned(feedback_result(arg.outcome, arg.language, arg.severity))
    /\ UNCHANGED <<arg, page_vars, run_vars>>

NextFeedback == GenerateFeedback

SpecFeedback == InitFeedback /\ [][NextFeedback]_vars

(***************************************************************************)
(* Specification SpecMock: MockGroq._mock_create answering the prompts the *)
(* two generate_ methods build, for snippets of at most MaxFrags fragments.*)
(***************************************************************************)
PromptSnippetFragments ==
    {"x = 1\n", "def f(u):\n    return u == True\n", "# Respond only ",
     "with valid JSON", "Respond only with valid JSON.",
     "Please provide a response in the following JSON format:",
     "respond only with valid json", Fence}

InitMock ==
    /\ arg \in {[prompt |-> "feedback", code_snippet |-> Join(ws), comment |-> c,
                 language |-> l, severity |-> sev] :
                    ws \in FragmentSeqs(PromptSnippetFragments, MaxFrags),
                    c \in {"This is inefficient.", "Respond only with valid JSON"},
                    l \in {"python", "c++"}, sev \in Severities}
               \cup
               {[prompt |-> "summary", code_snippet |-> Join(ws), n_feedback |-> n,
                 language |-> l] :
                    ws \in FragmentSeqs(PromptSnippetFragments, MaxFrags),
                    n \in 1..MaxComments, l \in {"python", "c++"}}
    /\ ret = NotCalled
    /\ NoSession

CallMock ==
    /\ ret = NotCalled
    /\ "prompt" \in DOMAIN arg
    /\ LET messages == IF arg.prompt = "feedback"
                       THEN feedback_messages(arg.code_snippet, arg.comment,
                                              arg.language, arg.severity)
                       ELSE summary_messages(arg.code_snippet, arg.n_feedback,
                                             arg.language)
       IN  ret' = [called |-> TRUE, content |-> mock_create(messages)]
    /\ UNCHANGED <<arg, page_vars, run_vars>>

NextMock == CallMock

SpecMock == InitMock /\ [][NextMock]_vars

(***************************************************************************)
(* Specification Spec: the page.  Streamlit runs the script from the top   *)
(* at every interaction; a run is one execution of main.  The try at line  *)
(* 460 has no handler: the model takes its body, and an exception leaving  *)
(* the body ends the run.                                                  *)
(*   pc = "start"     no run yet          pc = "loop"  before call comment_no *)
(*   pc = "rendered"  run over, no click  pc = "call"  completion in flight   *)
(*   pc = "done"      run over, after the click                            *)
(*   pc = "crashed"   an exception left main                               *)
(***************************************************************************)
language_options ==
    <<"Auto-detect", "Python", "JavaScript", "Java", "C++", "C", "Go", "Rust", "PHP">>

sample_code ==
    "def get_active_users(users):\n"
    \o "    results = []\n"
    \o "    for u in users:\n"
    \o "        if u.is_active == True and u.profile_complete == True:\n"
    \o "            results.append(u)\n"
    \o "    return results"

sample_comments ==
    <<"This is inefficient. Don't loop twice conceptually.",
      "Variable 'u' is a bad name.",
      "Boolean comparison '== True' is redundant.">>

\* What the user may have typed in the snippet area and in a comment field.
TypedSnippets == {"", " \n", "func main() {}\n"}

\* The review comments of the user, in the order they have them.
ReviewComments ==
    <<"This is inefficient.", "Variable 'u' is a bad name.",
      "Boolean comparison is redundant.", " Consider a list comprehension. ">>

\* A field without a comment holds only spaces ("" is blank by the same test).
BlankComments == {"  "}

\* The fillings of n comment fields: a field is blank or holds one of the
\* review comments, and the comments are entered in their order.
TypedComments(n) ==
    LET Position(c) == CHOOSE k \in 1..Len(ReviewComments) : ReviewComments[k] = c IN
    {f \in [1..n -> BlankComments \cup {ReviewComments[k] : k \in 1..Len(ReviewComments)}] :
        \A a \in 1..n : \A b \in (a + 1)..n :
            (f[a] \notin BlankComments /\ f[b] \notin BlankComments)
                => Position(f[a]) < Position(f[b])}

TypedLanguages == {"Auto-detect", "C++"}

\* Lines 443-448: the comments kept, stripped, in input order.
RECURSIVE AcceptedComments(_)
AcceptedComments(inputs) ==
    IF inputs = <<>> THEN <<>>
    ELSE IF Head(inputs) # "" /\ strip(Head(inputs)) # ""
         THEN <<strip(Head(inputs))>> \o AcceptedComments(Tail(inputs))
         ELSE AcceptedComments(Tail(inputs))

SetKey(state, k, v) == (k :> v) @@ state

\* A variant of Rendered: the test of the snippet left out.
Rendered_snippet_unchecked(key, code, cs, state) ==
    (IF key = "" THEN {"info_api_key"} ELSE {})
    \cup (IF cs = <<>> THEN {"info_add_comment"}
          ELSE {"button", "report_header"}
               \cup (IF "results" \in DOMAIN state THEN {"report"} ELSE {}))

\* Lines 452-458 and 476-478: what a run without a click puts on the page.
Rendered(key, code, cs, state) ==
    (IF key = "" THEN {"info_api_key"} ELSE {})
    \cup (IF strip(code) = "" THEN {"info_paste_snippet"}
          ELSE IF cs = <<>> THEN {"info_add_comment"}
          ELSE {"button", "report_header"}
               \cup (IF "results" \in DOMAIN state THEN {"report"} ELSE {}))

\* A run of the script in which the Generate button is not pressed.
RunWithoutClick(key, code, inputs, state) ==
    /\ session_state' = SetKey(state, "num_comments", Len(inputs))
    /\ comments' = AcceptedComments(inputs)
    /\ shown' = Rendered(key, code, AcceptedComments(inputs), session_state')
    /\ pc' = "rendered"
    /\ client' = "none" /\ detected_language' = "" /\ comment_no' = 0
    /\ all_feedback' = <<>> /\ reviewers' = 0 /\ calls' = <<>>

Init ==
    /\ arg = NotCalled /\ ret = NotCalled
    /\ GroqAvailable \in BOOLEAN
    /\ api_key \in {"", "gsk_key"}
    /\ selected_language \in TypedLanguages
    /\ code_snippet \in TypedSnippets
    /\ comment_inputs \in UNION {TypedComments(n) : n \in 1..MaxComments}
    /\ session_state = ("sample_loaded" :> FALSE @@ "splash_shown" :> FALSE)
    /\ shown = {}
    /\ pc = "start" /\ client = "none" /\ detected_language = "" /\ comments = <<>>
    /\ comment_no = 0 /\ all_feedback = <<>> /\ reviewers = 0 /\ calls = <<>>

\* Lines 383-401: the first run shows the splash screen and reruns.
Splash ==
    /\ pc = "start"
    /\ ~session_state["splash_shown"]
    /\ session_state' = SetKey(session_state, "splash_shown", TRUE)
    /\ UNCHANGED <<unit_vars, GroqAvailable, api_key, selected_language, code_snippet,
                   comment_inputs, shown, run_vars>>

\* A run from the top to the end of main, the Generate button not pressed.
ScriptRun ==
    /\ pc \in {"start", "rendered", "done", "crashed"}
    /\ session_state["splash_shown"]
    /\ RunWithoutClick(api_key, code_snippet, comment_inputs, session_state)
    /\ UNCHANGED <<unit_vars, GroqAvailable, api_key, selected_language, code_snippet,
                   comment_inputs>>

\* The user changes the snippet; the script reruns.
EditSnippet ==
    /\ pc \in {"rendered", "done", "crashed"}
    /\ \E c \in TypedSnippets \ {code_snippet} :
         /\ code_snippet' = c
         /\ RunWithoutClick(api_key, c, comment_inputs, session_state)
    /\ UNCHANGED <<unit_vars, GroqAvailable, api_key, selected_language, comment_inputs>>

\* Lines 376-378, 419-446: Load Sample Data; the script reruns with the
\* sample as the default of the snippet area and of the comment fields.
LoadSampleData ==
    /\ pc \in {"rendered", "done", "crashed"}
    /\ ~session_state["sample_loaded"]
    /\ LET inputs == [n \in 1..Len(comment_inputs) |->
                        IF n <= Len(sample_comments) THEN sample_comments[n] ELSE ""]
       IN  /\ code_snippet' = sample_code
           /\ comment_inputs' = inputs
           /\ RunWithoutClick(api_key, sample_code, inputs,
                              SetKey(session_state, "sample_loaded", TRUE))
    /\ UNCHANGED <<unit_vars, GroqAvailable, api_key, selected_language>>

\* What the hosted service may answer to one feedback request.
GroqOutcomes ==
    {[kind |-> "error"],
     [kind |-> "text", content |-> "Sorry, I cannot help with that."],
     [kind |-> "text",
      content |-> Fence \o "json\n{\"positive_rephrasing\": \"Nice start.\", "
                  \o "\"the_why\": \"Clarity helps.\", "
                  \o "\"suggested_improvement\": \"return u\", "
                  \o "\"resource_link\": \"https://docs.python.org/3/\"}\n" \o Fence]}

\* EmpatheticCodeReviewer.__init__: the clients the constructor may set.
ClientsOf(available) == IF available THEN {"Groq", "MockGroq"} ELSE {"MockGroq"}

\* Line 463.
LanguageTag(selected, code) ==
    IF selected = "Auto-detect" THEN get_language_from_code(code) ELSE lower(selected)

\* Lines 459-468: the button is pressed; the run reaches the loop.
ClickGenerate ==
    /\ pc = "rendered"
    /\ "button" \in shown
    /\ session_state' = SetKey(session_state, "num_comments", Len(comment_inputs))
    /\ comments' = AcceptedComments(comment_inputs)
    /\ shown' = (IF api_key = "" THEN {"info_api_key"} ELSE {}) \cup {"button", "spinner"}
    /\ reviewers' = 1
    /\ client' \in ClientsOf(GroqAvailable)
    /\ detected_language' = LanguageTag(selected_language, code_snippet)
    /\ all_feedback' = <<>>
    /\ comment_no' = 1
    /\ calls' = <<>>
    /\ pc' = "loop"
    /\ UNCHANGED <<unit_vars, GroqAvailable, api_key, selected_language, code_snippet,
                   comment_inputs>>

\* Lines 470-473 up to the completion request of generate_empathetic_feedback.
IssueFeedbackCall ==
    /\ pc = "loop"
    /\ comment_no <= Len(comments)
    /\ calls' = Append(calls, [op |-> "feedback", comment |-> comment_no, ev |-> "start",
                               severity |-> analyze_comment_severity(comments[comment_no])])
    /\ pc' = "call"
    /\ UNCHANGED <<unit_vars, page_vars, client, detected_language, comments, comment_no,
                   all_feedback, reviewers>>

\* A variant of FeedbackReturn: the value is put at the front of the list.
FeedbackReturn_prepending ==
    /\ pc = "call"
    /\ LET severity == calls[Len(calls)].severity
           messages == feedback_messages(code_snippet, comments[comment_no],
                                         detected_language, severity)
       IN  \E outcome \in (IF client = "MockGroq" THEN {MockOutcome(messages)}
                           ELSE GroqOutcomes) :
             LET r == feedback_result(outcome, detected_language, severity) IN
             /\ calls' = Append(calls, [op |-> "feedback", comment |-> comment_no,
                                        ev |-> "end", outcome |-> outcome])
             /\ IF r.raised
                THEN /\ pc' = "crashed"
                     /\ UNCHANGED <<all_feedback, comment_no>>
                ELSE /\ all_feedback' = <<r.value>> \o all_feedback
                     /\ comment_no' = comment_no + 1
                     /\ pc' = "loop"
    /\ UNCHANGED <<unit_vars, page_vars, client, detected_language, comments, reviewers>>

\* Lines 271-317 and 473-474: the completion returns or fails, the method
\* returns its value (or raises), the value is appended.
FeedbackReturn ==
    /\ pc = "call"
    /\ LET severity == calls[Len(calls)].severity
           messages == feedback_messages(code_snippet, comments[comment_no],
                                         detected_language, severity)
       IN  \E outcome \in (IF client = "MockGroq" THEN {MockOutcome(messages)}
                           ELSE GroqOutcomes) :
             LET r == feedback_result(outcome, detected_language, severity) IN
             /\ calls' = Append(calls, [op |-> "feedback", comment |-> comment_no,
                                        ev |-> "end", outcome |-> outcome])
             /\ IF r.raised
                THEN /\ pc' = "crashed"
                     /\ UNCHANGED <<all_feedback, comment_no>>
                ELSE /\ all_feedback' = Append(all_feedback, r.value)
                     /\ comment_no' = comment_no + 1
                     /\ pc' = "loop"
    /\ UNCHANGED <<unit_vars, page_vars, client, detected_language, comments, reviewers>>

\* Lines 476-478: the loop is over; the rest of main.
FinishRun ==
    /\ pc = "loop"
    /\ comment_no > Len(comments)
    /\ shown' = (shown \ {"spinner"}) \cup {"report_header"}
                \cup (IF "results" \in DOMAIN session_state THEN {"report"} ELSE {})
    /\ pc' = "done"
    /\ UNCHANGED <<unit_vars, GroqAvailable, api_key, selected_language, code_snippet,
                   comment_inputs, session_state, client, detected_language, comments,
                   comment_no, all_feedback, reviewers, calls>>

Next ==
    \/ Splash
    \/ ScriptRun
    \/ EditSnippet
    \/ LoadSampleData
    \/ ClickGenerate
    \/ IssueFeedbackCall
    \/ FeedbackReturn
    \/ FinishRun

Spec == Init /\ [][Next]_vars

(***************************************************************************)
(* The report section: the Markdown export of a stored report.             *)
(***************************************************************************)
DigitString == "0123456789"

\* str of a natural number
RECURSIVE str_int(_)
str_int(n) ==
    IF n < 10 THEN Char(DigitString, n + 1)
    ELSE str_int(n \div 10) \o Char(DigitString, (n % 10) + 1)

\* A number in a strftime field of the given width (%Y, %m, %d, %H, %M, %S).
RECURSIVE ZeroPadded(_, _)
ZeroPadded(text, width) ==
    IF Len(text) >= width THEN text ELSE ZeroPadded("0" \o text, width)

\* datetime.strftime('%Y-%m-%d %H:%M:%S')
strftime_report(now) ==
    ZeroPadded(str_int(now.year), 4) \o "-" \o ZeroPadded(str_int(now.month), 2)
    \o "-" \o ZeroPadded(str_int(now.day), 2) \o " "
    \o ZeroPadded(str_int(now.hour), 2) \o ":" \o ZeroPadded(str_int(now.minute), 2)
    \o ":" \o ZeroPadded(str_int(now.second), 2)

\* datetime.strftime('%Y%m%d_%H%M%S')
strftime_file(now) ==
    ZeroPadded(str_int(now.year), 4) \o ZeroPadded(str_int(now.month), 2)
    \o ZeroPadded(str_int(now.day), 2) \o "_"
    \o ZeroPadded(str_int(now.hour), 2) \o ZeroPadded(str_int(now.minute), 2)
    \o ZeroPadded(str_int(now.second), 2)

UpperChar(c) ==
    IF \E k \in 1..26 : Char(LowerLetters, k) = c
    THEN Char(UpperLetters, CHOOSE k \in 1..26 : Char(LowerLetters, k) = c)
    ELSE c

IsLetter(c) == \E k \in 1..26 : c \in {Char(LowerLetters, k), Char(UpperLetters, k)}

\* str.title: a letter after a character that is no letter (or first) in
\* upper case, every other letter in lower case
RECURSIVE TitleFrom(_, _, _)
TitleFrom(s, k, after_letter) ==
    IF k > Len(s) THEN ""
    ELSE (IF ~IsLetter(Char(s, k)) THEN Char(s, k)
          ELSE IF after_letter THEN LowerChar(Char(s, k))
          ELSE UpperChar(Char(s, k)))
         \o TitleFrom(s, k + 1, IsLetter(Char(s, k)))

title(s) == TitleFrom(s, 1, FALSE)

\* A value inside an f-string: a string as it is, None as its name.
format_value(v) ==
    IF v.ty = "str" THEN v.v
    ELSE IF v.ty = "null" THEN "None"
    ELSE IF v.v = "true" THEN "True" ELSE "False"

\* feedback.get(key, '') inside an f-string
dict_get(feedback, key) ==
    IF key \in DOMAIN feedback.v THEN format_value(feedback.v[key]) ELSE ""

\* Each emoji of the source is four characters outside ASCII.
Emoji == Unwritable \o Unwritable \o Unwritable \o Unwritable

\* Line 544: title, time, snippet.
report_head(results, now) ==
    "# " \o Emoji \o " Empathetic Code Review Report\n\nGenerated on: "
    \o strftime_report(now)
    \o "\n\n## Original Code (" \o title(results.language) \o ")\n\n"
    \o Fence \o results.language \o "\n" \o results.code_snippet \o "\n" \o Fence
    \o "\n\n## Constructive Feedback\n\n"

\* A variant of comment_section: the reason before the rephrasing.
comment_section_why_first(i, original_comment, feedback, language) ==
    "### " \o Emoji \o " Analysis of Comment " \o str_int(i) \o ": \""
    \o original_comment \o "\"\n\n**" \o Emoji \o " The 'Why':** "
    \o dict_get(feedback, "the_why")
    \o "\n\n**" \o Emoji \o " Positive Rephrasing:** "
    \o dict_get(feedback, "positive_rephrasing")
    \o "\n\n**" \o Emoji \o " Suggested Improvement:**\n"
    \o Fence \o language \o "\n" \o dict_get(feedback, "suggested_improvement")
    \o "\n" \o Fence
    \o "\n\n**" \o Emoji \o " Learn More:** [" \o dict_get(feedback, "resource_link")
    \o "]\n\n---\n\n"

\* Line 546: the section of one (comment, feedback) pair.
comment_section(i, original_comment, feedback, language) ==
    "### " \o Emoji \o " Analysis of Comment " \o str_int(i) \o ": \""
    \o original_comment \o "\"\n\n**" \o Emoji \o " Positive Rephrasing:** "
    \o dict_get(feedback, "positive_rephrasing")
    \o "\n\n**" \o Emoji \o " The 'Why':** "
    \o dict_get(feedback, "the_why")
    \o "\n\n**" \o Emoji \o " Suggested Improvement:**\n"
    \o Fence \o language \o "\n" \o dict_get(feedback, "suggested_improvement")
    \o "\n" \o Fence
    \o "\n\n**" \o Emoji \o " Learn More:** [" \o dict_get(feedback, "resource_link")
    \o "]\n\n---\n\n"

\* The length of zip(comments, feedback).
zip_len(xs, ys) == IF Len(xs) <= Len(ys) THEN Len(xs) ELSE Len(ys)

\* Line 545: the loop over the pairs, from pair i on.
RECURSIVE comment_sections(_, _)
comment_sections(results, i) ==
    IF i > zip_len(results.comments, results.feedback) THEN ""
    ELSE comment_section(i, results.comments[i], results.feedback[i],
                         results.language)
         \o comment_sections(results, i + 1)

\* Line 547.
report_tail(results) ==
    "## " \o Emoji \o " Summary\n\n" \o results.summary
    \o "\n\n*Happy coding! " \o Emoji \o "*\n"

\* Lines 544-547.
markdown_content(results, now) ==
    report_head(results, now) \o comment_sections(results, 1) \o report_tail(results)

\* Line 548.
filename(now) == "empathetic_review_" \o strftime_file(now) \o ".md"

(***************************************************************************)
(* SpecExport: the export of a stored report on its own.  The report holds *)
(* what the report section reads: language, code_snippet, comments,        *)
(* feedback, summary.  The clock is read once for the document and once    *)
(* more for the file name.                                                 *)
(***************************************************************************)
ExportSnippets == {"x = 1", "def f(u):\n    return u == True\n"}

\* A dict of the four fields, and a dict with two fields missing and None
\* for its link.
PartialItem ==
    PyDict([k \in {"positive_rephrasing", "resource_link"} |->
               IF k = "positive_rephrasing"
               THEN PyStr("Nice start; a clearer name would help readers.")
               ELSE [ty |-> "null"]])

ExportItems(language) == {json_fallback(language), PartialItem}

ExportClock ==
    {<<[year |-> 2025, month |-> 3, day |-> 9, hour |-> 7, minute |-> 5, second |-> 59],
       [year |-> 2025, month |-> 3, day |-> 9, hour |-> 7, minute |-> 6, second |-> 0]>>,
     <<[year |-> 2024, month |-> 12, day |-> 31, hour |-> 23, minute |-> 40, second |-> 8],
       [year |-> 2024, month |-> 12, day |-> 31, hour |-> 23, minute |-> 40, second |-> 8]>>}

InitExport ==
    /\ arg \in UNION {
               {[results |-> [language |-> l, code_snippet |-> code,
                              comments |-> SubSeq(ReviewComments, 1, n),
                              feedback |-> items, summary |-> summary_fallback],
                 now |-> clock[1], now_file |-> clock[2]] :
                    code \in ExportSnippets,
                    n \in 0..MaxComments,
                    items \in FragmentSeqs(ExportItems(l), MaxComments),
                    clock \in ExportClock} : l \in {"python", "c++"}}
    /\ ret = NotCalled
    /\ NoSession

\* Lines 544-549: the document and the file name handed to download_button.
Export ==
    /\ ret = NotCalled
    /\ "results" \in DOMAIN arg
    /\ ret' = [called |-> TRUE,
               data |-> markdown_content(arg.results, arg.now),
               file_name |-> filename(arg.now_file),
               mime |-> "text/markdown"]
    /\ UNCHANGED <<arg, page_vars, run_vars>>

NextExport == Export

SpecExport == InitExport /\ [][NextExport]_vars

\* Some substring of the comment is, once lower-cased, one of the keywords.
HasKeyword(indicators, comment) ==
    \E k \in 1..Len(indicators) :
        \E a \in 1..(Len(comment) - Len(indicators[k]) + 1) :
            lower(SubSeq(comment, a, a + Len(indicators[k]) - 1)) = indicators[k]

\* C1: a comment with a harsh keyword is harsh whatever neutral keywords it
\* has, one with only neutral keywords is neutral, one with neither is
\* constructive; the result is always one of the three values.
C1_DecisionRule ==
    (ret.called /\ "severity" \in DOMAIN ret) =>
      LET harsh   == HasKeyword(harsh_indicators, arg.comment)
          neutral == HasKeyword(neutral_indicators, arg.comment)
      IN
        /\ ret.severity \in {"harsh", "neutral", "constructive"}
        /\ harsh => ret.severity = "harsh"
        /\ (~harsh /\ neutral) => ret.severity = "neutral"
        /\ (~harsh /\ ~neutral) => ret.severity = "constructive"

\* A harsh comment that holds more neutral keywords than harsh ones.
C1_Witness ==
    /\ ret.called /\ "severity" \in DOMAIN ret
    /\ ret.severity = "harsh"
    /\ CountIn(neutral_indicators, lower(arg.comment))
         > CountIn(harsh_indicators, lower(arg.comment))

\* The language tags in the order of the table.
TagOrder == <<"python", "javascript", "java", "cpp", "c", "go", "rust", "php">>

\* The tags that have a pattern matching the snippet.
MatchingTags(code) ==
    {t \in {TagOrder[k] : k \in 1..Len(TagOrder)} :
        \E e \in 1..Len(language_patterns) :
            /\ language_patterns[e].lang = t
            /\ AnyPattern(language_patterns[e].patterns, code)}

\* C3: the result is the first tag of TagOrder that has a matching pattern,
\* python when no tag has one; a snippet matching cpp and c (and no earlier
\* tag) is cpp.
C3_FirstMatchWins ==
    (ret.called /\ "language" \in DOMAIN ret) =>
      LET M == MatchingTags(arg.code_snippet) IN
        /\ \E k \in 1..Len(TagOrder) : ret.language = TagOrder[k]
        /\ M = {} => ret.language = "python"
        /\ M # {} =>
              \E k \in 1..Len(TagOrder) :
                  /\ ret.language = TagOrder[k]
                  /\ TagOrder[k] \in M
                  /\ \A j \in 1..(k - 1) : TagOrder[j] \notin M
        /\ ({"cpp", "c"} \subseteq M /\ M \cap {"python", "javascript", "java"} = {})
              => ret.language = "cpp"

\* A snippet matching patterns of cpp and of c has been classified.
C3_Witness ==
    /\ ret.called /\ "language" \in DOMAIN ret
    /\ {"cpp", "c"} \subseteq MatchingTags(arg.code_snippet)
    /\ ret.language = "cpp"

\* A value is a dict holding the four fields as strings (and maybe more).
HasRequiredFields(v) ==
    /\ v.ty = "dict"
    /\ FeedbackFields \subseteq DOMAIN v.v
    /\ \A k \in FeedbackFields : v.v[k].ty = "str"

\* A value is a dict of exactly the four fields, each a string.
IsFeedbackItem(v) == HasRequiredFields(v) /\ DOMAIN v.v = FeedbackFields

FeedbackReturned == ret.called /\ "raised" \in DOMAIN ret

\* C4: for a completion text of each of the classes a to e the method does
\* not raise and returns a record of exactly the four fields, each a string.
C4_AlwaysFourFields ==
    (FeedbackReturned /\ arg.class \in {"a", "b", "c", "d", "e"}) =>
        ~ret.raised /\ IsFeedbackItem(ret.feedback)

\* C5: a returned item never misses a field; when the text does not parse
\* or parses into something without the four string fields, the fallback of
\* the JSON error clause is returned.
C5_FallbackOnMissingStructure ==
    (FeedbackReturned /\ arg.outcome.kind = "text") =>
        LET parsed == json_loads(extract_json_text(strip_fences(strip(arg.outcome.content))))
        IN  /\ ~ret.raised
            /\ HasRequiredFields(ret.feedback)
            /\ (~parsed.ok \/ ~HasRequiredFields(parsed.val))
                  => ret.feedback = json_fallback(arg.language)

\* The comments of the end-to-end scenario.
Scenario ==
    <<"This is inefficient.", "Variable 'u' is a bad name.",
      "Boolean comparison is redundant.">>

IsStart(e) == e.ev = "start"

\* The severities computed in the run so far, in the order of the calls.
SeveritiesOfRun ==
    LET starts == SelectSeq(calls, IsStart) IN [k \in 1..Len(starts) |-> starts[k].severity]

\* C2 as stated: a run over the scenario's comments classifies them, in
\* input order, as harsh, constructive, constructive.
C2_ScenarioSeverities ==
    (pc = "done" /\ comments = Scenario) =>
        SeveritiesOfRun = <<"harsh", "constructive", "constructive">>

\* C2 amended: a run over the scenario's comments classifies them, in input
\* order, as harsh, harsh, constructive: the second contains "bad".
C2_ScenarioSeveritiesAmended ==
    (pc = "done" /\ comments = Scenario) =>
        SeveritiesOfRun = <<"harsh", "harsh", "constructive">>

C2_Witness == pc = "done" /\ comments = Scenario /\ Len(SeveritiesOfRun) = 3

\* C6: a finished run over N comments has issued the N feedback calls one
\* after the other in comment order, each returned before the next starts,
\* and after them exactly one summary call.
C6_SequentialThenOneSummary ==
    pc = "done" =>
        /\ Len(calls) = 2 * Len(comments) + 2
        /\ \A n \in 1..Len(comments) :
              /\ calls[2 * n - 1].op = "feedback" /\ calls[2 * n - 1].ev = "start"
              /\ calls[2 * n - 1].comment = n
              /\ calls[2 * n].op = "feedback" /\ calls[2 * n].ev = "end"
              /\ calls[2 * n].comment = n
        /\ calls[Len(calls) - 1].op = "summary" /\ calls[Len(calls) - 1].ev = "start"
        /\ calls[Len(calls)].op = "summary" /\ calls[Len(calls)].ev = "end"

\* The completion of a call failed: the service raised or returned no
\* content, or the text it returned does not parse.
ServiceFailed(outcome) == outcome.kind # "text"

Malformed(outcome) ==
    /\ outcome.kind = "text"
    /\ ~json_loads(extract_json_text(strip_fences(strip(outcome.content)))).ok

\* C7: no exception leaves the run; the calls are issued once each, in
\* comment order; the item of a comment whose call or parsing failed is the
\* static fallback; a finished run holds one item per comment.
C7_FailuresContained ==
    /\ pc # "crashed"
    /\ pc = "done" => Len(all_feedback) = Len(comments)
    /\ \A k \in 1..Len(calls) :
          /\ calls[k].comment = (k + 1) \div 2
          /\ calls[k].ev = (IF k % 2 = 1 THEN "start" ELSE "end")
          /\ calls[k].ev = "end" =>
                /\ Len(all_feedback) >= calls[k].comment
                /\ ServiceFailed(calls[k].outcome)
                      => all_feedback[calls[k].comment] = api_fallback(detected_language)
                /\ Malformed(calls[k].outcome)
                      => all_feedback[calls[k].comment] = json_fallback(detected_language)

C7_Witness ==
    /\ pc = "done"
    /\ Len(comments) = 3 /\ Len(all_feedback) = 3
    /\ ServiceFailed(calls[2].outcome) /\ all_feedback[1] = api_fallback(detected_language)
    /\ Malformed(calls[4].outcome) /\ all_feedback[2] = json_fallback(detected_language)
    /\ all_feedback[3] \notin {api_fallback(detected_language), json_fallback(detected_language)}

IsBlank(text) == \A k \in 1..Len(text) : Char(text, k) \in Whitespace

\* C8: while the snippet is blank or every comment field is blank, no
\* reviewer is created, no call is issued, no item is produced, and a
\* finished run shows a guidance message and neither button nor report.
C8_ValidationPrecedesWork ==
    (IsBlank(code_snippet) \/ \A n \in 1..Len(comment_inputs) : IsBlank(comment_inputs[n])) =>
        /\ reviewers = 0 /\ client = "none"
        /\ calls = <<>> /\ all_feedback = <<>>
        /\ pc \in {"start", "rendered"}
        /\ pc = "rendered" =>
              /\ shown \cap {"info_paste_snippet", "info_add_comment"} # {}
              /\ shown \cap {"button", "report_header", "report"} = {}

C8_Witness ==
    /\ pc = "rendered"
    /\ IsBlank(code_snippet) /\ code_snippet # ""
    /\ comments # <<>>
    /\ "info_paste_snippet" \in shown

\* C9: when a run over the comments is finished, session state holds under
\* "results" the report of that run (snippet, language tag, comments, items,
\* summary) and the report section is rendered from it.
C9_ReportStored ==
    pc = "done" =>
        /\ "results" \in DOMAIN session_state
        /\ session_state["results"].code_snippet = code_snippet
        /\ session_state["results"].language = detected_language
        /\ session_state["results"].comments = comments
        /\ session_state["results"].feedback = all_feedback
        /\ "summary" \in DOMAIN session_state["results"]
        /\ "report" \in shown

MockReturned == ret.called /\ "content" \in DOMAIN ret

ParsesToFeedbackItem(text) ==
    LET parsed == json_loads(text) IN parsed.ok /\ IsFeedbackItem(parsed.val)

\* C10: MockGroq answers every feedback prompt with JSON that parses into
\* the four-field record, and every summary prompt, whatever snippet it
\* embeds, with the plain-prose summary.
C10_JsonExactlyForFeedback ==
    MockReturned =>
        /\ arg.prompt = "feedback" => ParsesToFeedbackItem(ret.content)
        /\ arg.prompt = "summary"  => /\ ret.content = summary_text
                                      /\ ~ParsesToFeedbackItem(ret.content)

\* The language tags of the tables of the reviewer.
LanguageTags == {TagOrder[k] : k \in 1..Len(TagOrder)}

\* C14: in every run the language tag handed to feedback generation is one
\* of python, javascript, java, cpp, c, go, rust, php, with Auto-detect and
\* with an explicit entry of the selector alike.
C14_TagInEnumeration ==
    pc \in {"loop", "call", "done"} => detected_language \in LanguageTags

\* The value generate_empathetic_feedback returns for call k of the run.
ItemOfCall(k) ==
    feedback_result(calls[2 * k].outcome, detected_language, calls[2 * k - 1].severity).value

C12_Paired ==
    pc \in {"loop", "call", "done"} =>
        /\ Len(all_feedback) = comment_no - 1
        /\ Len(all_feedback) = Len(calls) \div 2
        /\ Len(all_feedback) <= Len(comments)
        /\ pc = "done" => Len(all_feedback) = Len(comments)
        /\ \A k \in 1..Len(all_feedback) :
              /\ calls[2 * k - 1].comment = k
              /\ calls[2 * k - 1].severity = analyze_comment_severity(comments[k])
              /\ all_feedback[k] = ItemOfCall(k)

C12_AppendOnly ==
    pc \in {"loop", "call"} =>
        /\ Len(all_feedback') \in {Len(all_feedback), Len(all_feedback) + 1}
        /\ SubSeq(all_feedback', 1, Len(all_feedback)) = all_feedback

\* C12: at every step of a run the list holds one entry per processed
\* comment, entry k being the result of the call for comment k with the
\* severity of comment k; a step of the run leaves the entries present as
\* they are and adds at most one at the end; a finished run holds one entry
\* per comment.
C12_ListPairing == []C12_Paired /\ [][C12_AppendOnly]_vars

C12_Witness ==
    /\ pc = "loop" /\ comment_no = 3
    /\ Len(comments) = 3 /\ Len(all_feedback) = 2
    /\ all_feedback[1] # all_feedback[2]
    /\ calls[1].severity # calls[3].severity

\* The number of fences in a text, counted from left to right, none
\* overlapping the one before.
RECURSIVE FenceCount(_)
FenceCount(s) ==
    LET From(k) == IF k = 0 THEN 0
                   ELSE 1 + FenceCount(SubSeq(s, k + Len(Fence), Len(s)))
    IN  From(FirstOccurrence(s, Fence, 1, Len(s) - Len(Fence) + 1))

\* The user prompt built for the arguments of the call, around a given
\* snippet.
UserPromptAround(code) ==
    IF arg.prompt = "feedback"
    THEN feedback_messages(code, arg.comment, arg.language, arg.severity)[2].content
    ELSE summary_messages(code, arg.n_feedback, arg.language)[2].content

\* C13: in the feedback prompt and in the summary prompt alike the embedded
\* snippet holds no triple backtick: the prompt has the fences of its own
\* frame and no more, whatever the snippet.
C13_NoFenceInEmbeddedSnippet ==
    MockReturned =>
        FenceCount(UserPromptAround(arg.code_snippet)) = FenceCount(UserPromptAround(""))

Exported == ret.called /\ "data" \in DOMAIN ret

\* The position after the first occurrence of each text of a list in turn,
\* each looked for after the one before; 0 when one of them is not found.
RECURSIVE AfterEachInTurn(_, _, _)
AfterEachInTurn(doc, parts, from) ==
    IF parts = <<>> THEN from
    ELSE LET Then(k) == IF k = 0 THEN 0
                        ELSE AfterEachInTurn(doc, Tail(parts), k + Len(Head(parts)))
         IN  Then(FirstOccurrence(doc, Head(parts), from,
                                  Len(doc) - Len(Head(parts)) + 1))

\* The number of occurrences of a text in a document.
RECURSIVE Occurrences(_, _)
Occurrences(doc, text) ==
    LET From(k) == IF k = 0 THEN 0
                   ELSE 1 + Occurrences(SubSeq(doc, k + Len(text), Len(doc)), text)
    IN  From(FirstOccurrence(doc, text, 1, Len(doc) - Len(text) + 1))

\* What the claim has a field of an item show: its text, nothing when the
\* item has no such field.
FieldShown(item, k) ==
    IF k \notin DOMAIN item.v THEN ""
    ELSE IF item.v[k].ty = "str" THEN item.v[k].v ELSE "None"

FencedBlock(language, text) == Fence \o language \o "\n" \o text \o "\n" \o Fence

\* The parts of section i of the document, in the order of the claim.
RECURSIVE SectionParts(_, _, _)
SectionParts(results, i, n) ==
    IF i > n THEN <<>>
    ELSE << "Analysis of Comment " \o ToString(i) \o ": \"" \o results.comments[i] \o "\"",
            "Positive Rephrasing:** " \o FieldShown(results.feedback[i], "positive_rephrasing") \o "\n",
            "The 'Why':** " \o FieldShown(results.feedback[i], "the_why") \o "\n",
            "Suggested Improvement:**\n"
                \o FencedBlock(results.language,
                               FieldShown(results.feedback[i], "suggested_improvement")),
            "Learn More:** [" \o FieldShown(results.feedback[i], "resource_link") \o "]\n" >>
         \o SectionParts(results, i + 1, n)

PairsOf(results) ==
    Cardinality(DOMAIN results.comments \cap DOMAIN results.feedback)

ExpectedTime(now) ==
    LET Two(n) == IF n < 10 THEN "0" \o ToString(n) ELSE ToString(n)
    IN  ToString(now.year) \o "-" \o Two(now.month) \o "-" \o Two(now.day) \o " "
        \o Two(now.hour) \o ":" \o Two(now.minute) \o ":" \o Two(now.second)

\* C11: the exported document starts with the title, then shows the time
\* of the export, the snippet in a fenced block tagged with the language,
\* one section per (comment, item) pair in the order of the comments, each
\* with the comment and the four fields in the order positive_rephrasing,
\* the_why, suggested_improvement, resource_link, and the summary after the
\* last section; there are as many sections as pairs.
C11_ExportOrder ==
    Exported =>
        /\ SubSeq(ret.data, 1, 2) = "# "
        /\ FirstOccurrence(ret.data, "Empathetic Code Review Report\n", 1, Len(ret.data))
               < FirstOccurrence(ret.data, "\n", 1, Len(ret.data))
        /\ AfterEachInTurn(ret.data,
               << "Empathetic Code Review Report\n",
                  "Generated on: " \o ExpectedTime(arg.now) \o "\n",
                  FencedBlock(arg.results.language, arg.results.code_snippet) >>
               \o SectionParts(arg.results, 1, PairsOf(arg.results))
               \o << "Summary\n\n" \o arg.results.summary \o "\n" >>,
               1) # 0
        /\ Occurrences(ret.data, "Analysis of Comment ") = PairsOf(arg.results)
        /\ Occurrences(ret.data, "Positive Rephrasing:**") = PairsOf(arg.results)
        /\ Occurrences(ret.data, "Summary\n") = 1

C11_Witness ==
    /\ Exported
    /\ Len(arg.results.comments) = 3 /\ Len(arg.results.feedback) = 2
    /\ arg.results.feedback[1] = PartialItem
    /\ arg.results.feedback[2] # PartialItem
    /\ arg.results.language = "c++"

=============================================================================
